---- MODULE Spec2Model ----
(***************************************************************************)
(* A model of the ISL28022 power-monitor driver (src/ISL28022.py): the     *)
(* configuration-register synthesis, the resolution and conversion-delay   *)
(* look-ups, the register framing and the decoding of raw register values. *)
(*                                                                         *)
(* Physical quantities the code holds as floats are held here exactly:     *)
(* conversion delays in microseconds, bus voltage in millivolts, and the   *)
(* calibration derivation in rationals <<numerator, denominator>>.         *)
(***************************************************************************)
EXTENDS Integers, Sequences, FiniteSets, TLC

VARIABLES
    args,     \* the constructor's arguments
    config,   \* self._config, the cached configuration word
    calib,    \* self._calib
    pc,       \* where the handle is in its life
    wire,     \* the last payload handed to i2c.writeto, with the value it frames
    dev,      \* the two bytes the device returns to a register read
    result,   \* what the last operation returned
    trace,    \* the calls on the bus of the operation in progress or last made
    regs,     \* what the handle last wrote to each register of the device
    lock,     \* the holder of the bus lock, of a bus that callers share
    callers   \* where each caller of a shared bus is in its transaction

vars ==
    <<args, config, calib, pc, wire, dev, result, trace, regs, lock, callers>>

-----------------------------------------------------------------------------
(* 16-bit integer helpers: Python's &, |, >> and << on non-negative ints.  *)

RECURSIVE And(_, _)
And(x, y) ==
    IF x = 0 \/ y = 0 THEN 0
    ELSE (IF x % 2 = 1 /\ y % 2 = 1 THEN 1 ELSE 0) + 2 * And(x \div 2, y \div 2)

RECURSIVE Or(_, _)
Or(x, y) ==
    IF x = 0 THEN y
    ELSE IF y = 0 THEN x
    ELSE (IF x % 2 = 1 \/ y % 2 = 1 THEN 1 ELSE 0) + 2 * Or(x \div 2, y \div 2)

Shr(x, n) == x \div (2 ^ n)
Shl(x, n) == x * (2 ^ n)

-----------------------------------------------------------------------------
(* The device's registers (TABLE 2).                                       *)

register_config        == 0
register_shunt_voltage == 1
register_bus_voltage   == 2
register_power         == 3
register_current       == 4
register_calibration   == 5

(* Configuration register bits (TABLE 3).                                  *)
config_bits ==
    [ RST   |-> 32768, BRNG1 |-> 16384, BRNG0 |-> 8192,
      PG1   |-> 4096,  PG0   |-> 2048,
      BADC3 |-> 1024,  BADC2 |-> 512,   BADC1 |-> 256,  BADC0 |-> 128,
      SADC3 |-> 64,    SADC2 |-> 32,    SADC1 |-> 16,   SADC0 |-> 8,
      MODE2 |-> 4,     MODE1 |-> 2,     MODE0 |-> 1 ]

(* self._pow_table16[ n ], n = 0..15.                                      *)
pow_table16 == [n \in 0..15 |-> 2 ^ n]

(* _mask: the OR of the named configuration bits.                          *)
RECURSIVE mask(_)
mask(flags) ==
    IF flags = <<>> THEN 0
    ELSE Or(config_bits[Head(flags)], mask(Tail(flags)))

(* modes(): the mode bit flag of a configuration word.                     *)
modes_four_bits(cfg) == And(cfg, 15)
modes(cfg) == And(cfg, 7)

-----------------------------------------------------------------------------
(* The legal values of the constructor's arguments (the checks of          *)
(* __init__).                                                              *)

BusVoltages   == {16, 32, 60}
ShuntVoltages == {40, 80, 160, 320}
Averagings    == {0, 1, 2, 4, 8, 16, 32, 64, 128}
Modes         == 0..7

-----------------------------------------------------------------------------
(* _determine_configuration_register: the chain of `if`s that ORs bits     *)
(* into _cfg, starting from modes().                                       *)

OrIf(c, cfg, flags) == IF c THEN Or(cfg, mask(flags)) ELSE cfg

range_bits(cfg, bus_voltage, shunt_voltage) ==
    LET c1 == OrIf(bus_voltage = 32, cfg, <<"BRNG0">>)
        c2 == OrIf(bus_voltage = 60, c1, <<"BRNG1">>)
        c3 == OrIf(shunt_voltage = 80, c2, <<"PG0">>)
        c4 == OrIf(shunt_voltage = 160, c3, <<"PG1">>)
    IN  OrIf(shunt_voltage = 320, c4, <<"PG0", "PG1">>)

(* A slip: the 14-bit case sets both resolution bits.                      *)
bus_adc_bits_both(cfg, bus_voltage, bavg) ==
    IF bavg = 0
    THEN LET c1 == OrIf(bus_voltage = 60, cfg, <<"BADC1", "BADC0">>)
         IN  OrIf(bus_voltage = 32, c1, <<"BADC0">>)
    ELSE LET c0 == Or(cfg, config_bits["BADC3"])
             c1 == OrIf(bavg = 2, c0, <<"BADC0">>)
             c2 == OrIf(bavg = 4, c1, <<"BADC1">>)
             c3 == OrIf(bavg = 8, c2, <<"BADC0", "BADC1">>)
             c4 == OrIf(bavg = 16, c3, <<"BADC2">>)
             c5 == OrIf(bavg = 32, c4, <<"BADC2", "BADC0">>)
             c6 == OrIf(bavg = 64, c5, <<"BADC2", "BADC1">>)
         IN  OrIf(bavg = 128, c6, <<"BADC2", "BADC1", "BADC0">>)

bus_adc_bits(cfg, bus_voltage, bavg) ==
    IF bavg = 0
    THEN LET c1 == OrIf(bus_voltage = 60, cfg, <<"BADC1">>)
         IN  OrIf(bus_voltage = 32, c1, <<"BADC0">>)
    ELSE LET c0 == Or(cfg, config_bits["BADC3"])
             c1 == OrIf(bavg = 2, c0, <<"BADC0">>)
             c2 == OrIf(bavg = 4, c1, <<"BADC1">>)
             c3 == OrIf(bavg = 8, c2, <<"BADC0", "BADC1">>)
             c4 == OrIf(bavg = 16, c3, <<"BADC2">>)
             c5 == OrIf(bavg = 32, c4, <<"BADC2", "BADC0">>)
             c6 == OrIf(bavg = 64, c5, <<"BADC2", "BADC1">>)
         IN  OrIf(bavg = 128, c6, <<"BADC2", "BADC1", "BADC0">>)

(* A slip: the test on the bus count in the shunt branch is not the one    *)
(* with the empty body.                                                    *)
shunt_adc_bits_bavg(cfg, shunt_voltage, bavg, savg) ==
    IF savg = 0
    THEN LET c1 == OrIf(shunt_voltage = 320, cfg, <<"SADC0", "SADC1">>)
             c2 == OrIf(shunt_voltage = 160, c1, <<"SADC1">>)
         IN  OrIf(shunt_voltage = 80, c2, <<"SADC0">>)
    ELSE LET c0 == Or(cfg, config_bits["SADC3"])
             c1 == OrIf(bavg = 2, c0, <<"SADC0">>)
             c2 == OrIf(savg = 4, c1, <<"SADC1">>)
             c3 == OrIf(savg = 8, c2, <<"SADC0", "SADC1">>)
             c4 == OrIf(savg = 16, c3, <<"SADC2">>)
             c5 == OrIf(savg = 32, c4, <<"SADC2", "SADC0">>)
             c6 == OrIf(savg = 64, c5, <<"SADC2", "SADC1">>)
         IN  OrIf(savg = 128, c6, <<"SADC2", "SADC1", "SADC0">>)

(* The shunt branch tests self._bavg == 1 where the bus branch tests its   *)
(* own count; the body of that test is `pass`, so bavg is a parameter here *)
(* and has no effect.                                                      *)
shunt_adc_bits(cfg, shunt_voltage, bavg, savg) ==
    IF savg = 0
    THEN LET c1 == OrIf(shunt_voltage = 320, cfg, <<"SADC0", "SADC1">>)
             c2 == OrIf(shunt_voltage = 160, c1, <<"SADC1">>)
         IN  OrIf(shunt_voltage = 80, c2, <<"SADC0">>)
    ELSE LET c0 == Or(cfg, config_bits["SADC3"])
             cp == IF bavg = 1 THEN c0 ELSE c0
             c1 == OrIf(savg = 2, cp, <<"SADC0">>)
             c2 == OrIf(savg = 4, c1, <<"SADC1">>)
             c3 == OrIf(savg = 8, c2, <<"SADC0", "SADC1">>)
             c4 == OrIf(savg = 16, c3, <<"SADC2">>)
             c5 == OrIf(savg = 32, c4, <<"SADC2", "SADC0">>)
             c6 == OrIf(savg = 64, c5, <<"SADC2", "SADC1">>)
         IN  OrIf(savg = 128, c6, <<"SADC2", "SADC1", "SADC0">>)

determine_configuration_register(cfg, a) ==
    LET c1 == range_bits(modes(cfg), a.full_scale, a.shunt_voltage)
        c2 == bus_adc_bits(c1, a.full_scale, a.bavg)
    IN  shunt_adc_bits(c2, a.shunt_voltage, a.bavg, a.savg)

-----------------------------------------------------------------------------
(* _resolution( w ): the bit resolution read back from the range bits of   *)
(* the cached word; 0 when no test matches.                                *)

(* A slip: the two single-bit codes of the shunt range exchanged.          *)
resolution_swapped(cfg, w) ==
    LET w1   == IF w = "PG" THEN "PG1" ELSE "BRNG1"
        w0   == IF w = "PG" THEN "PG0" ELSE "BRNG0"
        both == mask(<<w1, w0>>)
        bits == And(cfg, both)
    IN  IF w = "PG"
        THEN IF bits = both THEN 15
             ELSE IF bits = mask(<<w1>>) THEN 13
             ELSE IF bits = mask(<<w0>>) THEN 14
             ELSE IF bits = 0 THEN 12
             ELSE 0
        ELSE IF bits = both THEN 14
             ELSE IF bits = mask(<<w1>>) THEN 14
             ELSE IF bits = mask(<<w0>>) THEN 13
             ELSE IF bits = 0 THEN 12
             ELSE 0

resolution(cfg, w) ==
    LET w1   == IF w = "PG" THEN "PG1" ELSE "BRNG1"
        w0   == IF w = "PG" THEN "PG0" ELSE "BRNG0"
        both == mask(<<w1, w0>>)
        bits == And(cfg, both)
    IN  IF w = "PG"
        THEN IF bits = both THEN 15
             ELSE IF bits = mask(<<w1>>) THEN 14
             ELSE IF bits = mask(<<w0>>) THEN 13
             ELSE IF bits = 0 THEN 12
             ELSE 0
        ELSE IF bits = both THEN 14
             ELSE IF bits = mask(<<w1>>) THEN 14
             ELSE IF bits = mask(<<w0>>) THEN 13
             ELSE IF bits = 0 THEN 12
             ELSE 0

-----------------------------------------------------------------------------
(* _converson_delay( reg ): the conversion time, in microseconds, looked   *)
(* up from a 4-bit ADC field; 0 when no pattern matches.                   *)

conversion_times ==
    <<80, 146, 284, 559, 1110, 2210, 4410, 8810, 17610, 35210, 70410>>

(* The masks the shunt branch compares _bits with, in the order of its     *)
(* tests: test i assigns _conversion_times[ i - 1 ].                       *)
shunt_patterns ==
    << 0,
       mask(<<"SADC0">>),
       mask(<<"SADC1">>),
       mask(<<"SADC1", "SADC0">>),
       mask(<<"SADC3", "SADC0">>),
       mask(<<"SADC3", "SADC1">>),
       mask(<<"SADC3", "SADC1", "SADC0">>),
       mask(<<"SADC3", "SADC2">>),
       mask(<<"SADC3", "SADC2", "SADC0">>),
       mask(<<"SADC3", "SADC2", "SADC1">>),
       mask(<<"SADC3", "SADC2", "SADC1", "SADC0">>) >>

(* The same for the bus branch.                                            *)
bus_patterns ==
    << 0,
       mask(<<"BADC0">>),
       mask(<<"BADC1">>),
       mask(<<"BADC1", "BADC0">>),
       mask(<<"BADC3", "BADC0">>),
       mask(<<"BADC3", "BADC1">>),
       mask(<<"BADC3", "BADC1", "BADC0">>),
       mask(<<"BADC3", "BADC2">>),
       mask(<<"BADC3", "BADC2", "BADC0">>),
       mask(<<"BADC3", "BADC2", "BADC1">>),
       mask(<<"BADC3", "BADC2", "BADC1", "BADC0">>) >>

(* _delay after the chain of tests; the patterns are distinct, so at most  *)
(* one test assigns, and _delay keeps 0.0 when none does.                  *)
delay_of_bits(bits, patterns) ==
    IF \E i \in 1..Len(patterns) : bits = patterns[i]
    THEN conversion_times[CHOOSE i \in 1..Len(patterns) : bits = patterns[i]]
    ELSE 0

(* The shunt branch masks self._register_config (the register address, 0)  *)
(* and the bus branch masks self._config.                                  *)
shunt_delay_word(cfg) == register_config
bus_delay_word(cfg)   == cfg

converson_delay(cfg, reg) ==
    IF reg = register_shunt_voltage
    THEN delay_of_bits(And(shunt_delay_word(cfg), shunt_patterns[11]),
                       shunt_patterns)
    ELSE IF reg = register_bus_voltage
    THEN delay_of_bits(And(bus_delay_word(cfg), bus_patterns[11]),
                       bus_patterns)
    ELSE 0

shunt_conversion_delay(cfg) == converson_delay(cfg, register_shunt_voltage)
bus_conversion_delay(cfg)   == converson_delay(cfg, register_bus_voltage)

-----------------------------------------------------------------------------
(* _twos_complement16( val16, bits ): the sign is tested at                *)
(* _pow_table16[ bits ] and the loop runs n over range( 0, bits - 1 ).     *)

RECURSIVE tc16_loop(_, _, _, _, _)
tc16_loop(val16, neg, n, stop, v) ==
    IF n >= stop THEN v
    ELSE LET bit == And(val16, pow_table16[n])
             v1  == IF neg # 0
                    THEN IF bit = 0 THEN v - pow_table16[n] ELSE v
                    ELSE IF bit # 0 THEN v + pow_table16[n] ELSE v
         IN  tc16_loop(val16, neg, n + 1, stop, v1)

tc16_range_stop(bits) == bits - 1

twos_complement16(val16, bits) ==
    LET neg == And(val16, pow_table16[bits])
        v0  == IF neg # 0 THEN -1 ELSE 0
    IN  tc16_loop(val16, neg, 0, tc16_range_stop(bits), v0)

-----------------------------------------------------------------------------
(* Register framing.  A buffer is a sequence of bytes; buf[0] of the code  *)
(* is buf[1] here.                                                         *)

(* A slip: the low byte sent first.                                        *)
payload_low_first(reg, v) == <<reg, And(v, 255), Shr(And(v, 65280), 8)>>

(* bytearray([ reg, (( v & 0xff00 ) >> 8 ), ( v & 0x00ff )])               *)
payload(reg, v) == <<reg, Shr(And(v, 65280), 8), And(v, 255)>>

(* _buf_to_int's assertion: len( buf ) >= 2.                               *)
buf_to_int_accepts(buf) == Len(buf) >= 2

(* _buf_to_int: int(( buf[0] << 8 ) | buf[1] ); ok is FALSE for the        *)
(* AssertionError.                                                         *)
buf_to_int(buf) ==
    IF buf_to_int_accepts(buf)
    THEN [ok |-> TRUE, val |-> Or(Shl(buf[1], 8), buf[2])]
    ELSE [ok |-> FALSE, val |-> 0]

(* A slip: _readreg16 asserting what _buf_to_int asserts.                  *)
readreg16_accepts_longer(buf) == Len(buf) >= 2

(* _readreg16's assertion on the buffer the transaction filled:            *)
(* len( _rbuf ) == 2.                                                      *)
readreg16_accepts(buf) == Len(buf) = 2

(* _rbuf = self._readreg16( reg ); _int = self._buf_to_int( _rbuf ), as    *)
(* every measurement starts.                                               *)
read16(buf) ==
    IF readreg16_accepts(buf) THEN buf_to_int(buf)
    ELSE [ok |-> FALSE, val |-> 0]

-----------------------------------------------------------------------------
(* bus_voltage(): the count taken from the raw register value at the       *)
(* resolution _bits, and the value returned, here in millivolts            *)
(* (_VbusLSB = 0.004 V).                                                   *)

VbusLSB_mV == 4

(* A slip: the 12-bit case keeps bit 15, as the 13-bit case does.          *)
bus_count_bit15(raw, bits) ==
    IF bits = 14 THEN Shr(And(raw, 65532), 2)
    ELSE IF bits = 13 THEN Shr(And(raw, 65528), 3)
    ELSE IF bits = 12 THEN Shr(And(raw, 65528), 3)
    ELSE 0

bus_count(raw, bits) ==
    IF bits = 14 THEN Shr(And(raw, 65532), 2)
    ELSE IF bits = 13 THEN Shr(And(raw, 65528), 3)
    ELSE IF bits = 12 THEN Shr(And(raw, 32760), 3)
    ELSE 0

(* The assertions on _bits of bus_voltage() and shunt_voltage().           *)
bus_bits_ok(cfg)   == resolution(cfg, "BRNG") \in {12, 13, 14}
shunt_bits_ok(cfg) == resolution(cfg, "PG") \in {12, 13, 14, 15}

(* A set overflow bit only prints.                                         *)
bus_voltage_of(cfg, raw) ==
    IF bus_bits_ok(cfg)
    THEN [ok |-> TRUE,
          val |-> bus_count(raw, resolution(cfg, "BRNG")) * VbusLSB_mV,
          overflow |-> And(raw, 1) # 0]
    ELSE [ok |-> FALSE, val |-> 0, overflow |-> And(raw, 1) # 0]

(* shunt_voltage(): the decoded count (the code multiplies it by           *)
(* 0.000010 V).                                                            *)
shunt_voltage_of(cfg, raw) ==
    IF shunt_bits_ok(cfg)
    THEN [ok |-> TRUE, val |-> twos_complement16(raw, resolution(cfg, "PG"))]
    ELSE [ok |-> FALSE, val |-> 0]

(* current(): the decoded count (the code multiplies it by _CurrentLSB).   *)
current_of(raw) == [ok |-> TRUE, val |-> twos_complement16(raw, 15)]

-----------------------------------------------------------------------------
(* The calibration derivation of __init__.  A float is held exactly, as    *)
(* <<numerator, denominator>> with a positive denominator.                 *)

RECURSIVE GCD(_, _)
GCD(m, n) == IF n = 0 THEN m ELSE GCD(n, m % n)

(* The same number in lowest terms.                                        *)
RNorm(n, d) ==
    LET g == GCD(IF n >= 0 THEN n ELSE 0 - n, d)
    IN  <<n \div g, d \div g>>

RMul(a, b) == RNorm(a[1] * b[1], a[2] * b[2])

(* Only called with a divisor that is not zero.                            *)
RDiv(a, b) ==
    IF b[1] > 0 THEN RNorm(a[1] * b[2], a[2] * b[1])
    ELSE RNorm(0 - (a[1] * b[2]), a[2] * (0 - b[1]))

(* int(): truncation towards zero.                                         *)
RInt(a) == IF a[1] >= 0 THEN a[1] \div a[2] ELSE 0 - ((0 - a[1]) \div a[2])

mOhm2Ohm(mOhm) == RNorm(mOhm, 1000)

(* A slip: millivolts taken for volts.                                     *)
mV2V_unscaled(mV) == RNorm(mV, 1)

mV2V(mV) == RNorm(mV, 1000)

(* math.pow( 2, 12 ) * 0.000010                                            *)
cal_numerator == RMul(<<2 ^ 12, 1>>, <<1, 100000>>)

CurrentFS(a) == RDiv(mV2V(a.shunt_voltage), mOhm2Ohm(a.shunt_resistor))

CurrentLSB(cfg, a) == RDiv(CurrentFS(a), <<2 ^ resolution(cfg, "PG"), 1>>)

(* A slip: the quotient by the current LSB alone.                           *)
CalRegVal_per_ohm(cfg, a) == RDiv(cal_numerator, CurrentLSB(cfg, a))

CalRegVal(cfg, a) ==
    RDiv(cal_numerator, RMul(CurrentLSB(cfg, a), mOhm2Ohm(a.shunt_resistor)))

(* self._calib = ( int( self._CalRegVal ) & 0xfffe )                       *)
calib_of(cfg, a) == And(RInt(CalRegVal(cfg, a)), 65534)

(* Both float divisions have the divisor 0.0 when shunt_resistor is 0,     *)
(* and the first raises ZeroDivisionError.                                 *)
calib_raises(a) == a.shunt_resistor = 0

-----------------------------------------------------------------------------
(* Inputs.                                                                 *)

(* Shunt resistances tried, in milliohms: 0 (which the checks of __init__  *)
(* let through), the default 5, and 5 + k.                                 *)
MaxShuntStep == 1
ShuntResistors == {0, 5} \cup {5 + k : k \in 1..MaxShuntStep}

(* The constructor's arguments that pass the checks of __init__.           *)
ValidArgs ==
    [ full_scale     : BusVoltages,
      shunt_voltage  : ShuntVoltages,
      shunt_resistor : ShuntResistors,
      bavg           : Averagings,
      savg           : Averagings,
      mode           : Modes ]

(* mode & ~0b111: the bits of mode above the low three.                    *)
excess_mode_bits(mode) == (mode \div 8) * 8

(* The checks of __init__: each assertion on a range or averaging          *)
(* argument, then the one on mode, which reads the argument and not the    *)
(* masked self._config.                                                    *)
mode_checked_masked(a) == And(a.mode, 7)
mode_checked(a) == a.mode

checks_pass(a) ==
    /\ a.full_scale \in BusVoltages
    /\ a.shunt_voltage \in ShuntVoltages
    /\ a.bavg \in Averagings
    /\ a.savg \in Averagings
    /\ excess_mode_bits(mode_checked(a)) = 0

(* Arguments with at least one field outside its legal set, each field     *)
(* drawn from its legal values and the values of Illegal.                  *)
Illegal ==
    [ full_scale |-> {64}, shunt_voltage |-> {20}, bavg |-> {3},
      savg |-> {256}, mode |-> {8, 15} ]

RejectedArgs ==
    [ full_scale     : BusVoltages \cup Illegal.full_scale,
      shunt_voltage  : ShuntVoltages \cup Illegal.shunt_voltage,
      shunt_resistor : {5},
      bavg           : Averagings \cup Illegal.bavg,
      savg           : Averagings \cup Illegal.savg,
      mode           : Modes \cup Illegal.mode ] \ ValidArgs

(* The defaults of __init__'s signature.                                   *)
DefaultArgs ==
    [ full_scale |-> 16, shunt_voltage |-> 320, shunt_resistor |-> 5,
      bavg |-> 0, savg |-> 0, mode |-> 7 ]

NoWrite  == [buf |-> <<>>, reg |-> 0, val |-> 0]
NoResult == [op |-> "none"]

(* What _write hands to i2c.writeto, kept with the value it frames.        *)
Written(reg, v) == [buf |-> payload(reg, v), reg |-> reg, val |-> v]

(* A call on the bus object: its name, the bytes handed to it, and what    *)
(* the code reads of its return (the flag of try_lock(), whether the list  *)
(* of scan() holds the address; TRUE for the calls whose return is not     *)
(* read).                                                                  *)
Call(name, arg, ret) == [call |-> name, arg |-> arg, ret |-> ret]

(* The calls of the scan of __init__, of _write and of _readreg16: the     *)
(* assertion on try_lock() ends the operation before the transaction when  *)
(* the bus is held by another user.                                        *)
locked_calls(free, transaction) ==
    IF free
    THEN << Call("try_lock", <<>>, TRUE), transaction,
            Call("unlock", <<>>, TRUE) >>
    ELSE << Call("try_lock", <<>>, FALSE) >>

scan_calls(free, found) == locked_calls(free, Call("scan", <<>>, found))
write_calls(free, buf) == locked_calls(free, Call("writeto", buf, TRUE))
readreg16_calls(free, reg) ==
    locked_calls(free, Call("writeto_then_readfrom", <<reg>>, TRUE))

(* The registers the driver writes, and the mark of one it has not.        *)
Unwritten == -1
NoRegs == [r \in {register_config, register_calibration} |-> Unwritten]

(* A bus no caller is using.                                               *)
NoHolder == 0
MaxCallers == 3
Callers == 1..MaxCallers
CallerIdle == [at |-> "idle", op |-> "none", raised |-> FALSE]
BusIdle ==
    /\ lock = NoHolder
    /\ callers = [c \in Callers |-> CallerIdle]

-----------------------------------------------------------------------------
(* __init__, one step per bus transaction.  try_lock() returns False when  *)
(* another user of the bus holds it (input `free`), and the assertion on   *)
(* it then ends the operation.                                             *)

Init ==
    /\ args \in ValidArgs \cup RejectedArgs
    /\ config = 0
    /\ calib = 0
    /\ pc = "new"
    /\ wire = NoWrite
    /\ dev = <<0, 0>>
    /\ result = NoResult
    /\ trace = <<>>
    /\ regs = NoRegs
    /\ BusIdle

(* self._config = mode & 0b111, the checks, the scan for the address.      *)
init_scan ==
    /\ pc = "new"
    /\ config' = And(args.mode, 7)
    /\ IF checks_pass(args)
       THEN \E free \in BOOLEAN, found \in BOOLEAN :
              /\ trace' = scan_calls(free, found)
              /\ pc' = IF free /\ found THEN "scanned" ELSE "failed"
       ELSE /\ trace' = <<>>
            /\ pc' = "failed"
    /\ result' = [op |-> "init_scan"]
    /\ UNCHANGED <<args, calib, wire, dev, regs, lock, callers>>

(* The write of the RST word to the configuration register.                *)
init_reset ==
    /\ pc = "scanned"
    /\ \E free \in BOOLEAN :
         /\ trace' = trace \o write_calls(free,
                         payload(register_config, config_bits["RST"]))
         /\ IF free
            THEN /\ wire' = Written(register_config, config_bits["RST"])
                 /\ regs' = [regs EXCEPT ![register_config] = wire'.val]
                 /\ pc' = "reset"
            ELSE /\ pc' = "failed"
                 /\ UNCHANGED <<wire, regs>>
    /\ result' = [op |-> "init_reset"]
    /\ UNCHANGED <<args, config, calib, dev, lock, callers>>

(* _determine_configuration_register() and the write of the word.          *)
init_config ==
    /\ pc = "reset"
    /\ config' = determine_configuration_register(config, args)
    /\ \E free \in BOOLEAN :
         /\ trace' = trace \o write_calls(free,
                         payload(register_config, config'))
         /\ IF free
            THEN /\ wire' = Written(register_config, config')
                 /\ regs' = [regs EXCEPT ![register_config] = config']
                 /\ pc' = "configured"
            ELSE /\ pc' = "failed"
                 /\ UNCHANGED <<wire, regs>>
    /\ result' = [op |-> "init_config"]
    /\ UNCHANGED <<args, calib, dev, lock, callers>>

(* The calibration derivation and the write of the calibration register.   *)
init_calib ==
    /\ pc = "configured"
    /\ IF calib_raises(args)
       THEN /\ pc' = "failed"
            /\ UNCHANGED <<calib, wire, trace, regs>>
       ELSE /\ calib' = calib_of(config, args)
            /\ \E free \in BOOLEAN :
                 /\ trace' = trace \o write_calls(free,
                                 payload(register_calibration, calib'))
                 /\ IF free
                    THEN /\ wire' = Written(register_calibration, calib')
                         /\ regs' = [regs EXCEPT
                                        ![register_calibration] = calib']
                         /\ pc' = "ready"
                    ELSE /\ pc' = "failed"
                         /\ UNCHANGED <<wire, regs>>
    /\ result' = [op |-> "init_calib"]
    /\ UNCHANGED <<args, config, dev, lock, callers>>

-----------------------------------------------------------------------------
(* The operations of a constructed handle.                                 *)

power_down ==
    /\ pc = "ready"
    /\ config' = And(config, 65528)
    /\ \E free \in BOOLEAN :
         /\ trace' = write_calls(free, payload(register_config, config'))
         /\ wire' = IF free THEN Written(register_config, config') ELSE wire
         /\ regs' = IF free THEN [regs EXCEPT ![register_config] = config']
                            ELSE regs
         /\ result' = [op |-> "power_down", ok |-> free]
    /\ UNCHANGED <<args, calib, pc, dev, lock, callers>>

adc_off ==
    /\ pc = "ready"
    /\ config' = Or(And(config, 65532), 4)
    /\ \E free \in BOOLEAN :
         /\ trace' = write_calls(free, payload(register_config, config'))
         /\ wire' = IF free THEN Written(register_config, config') ELSE wire
         /\ regs' = IF free THEN [regs EXCEPT ![register_config] = config']
                            ELSE regs
         /\ result' = [op |-> "adc_off", ok |-> free]
    /\ UNCHANGED <<args, calib, pc, dev, lock, callers>>

get_modes ==
    /\ pc = "ready"
    /\ result' = [op |-> "modes", val |-> modes(config)]
    /\ trace' = <<>>
    /\ UNCHANGED <<args, config, calib, pc, wire, dev, regs, lock, callers>>

get_resolution ==
    /\ pc = "ready"
    /\ \E w \in {"BRNG", "PG"} :
         result' = [op |-> "resolution", w |-> w, val |-> resolution(config, w)]
    /\ trace' = <<>>
    /\ UNCHANGED <<args, config, calib, pc, wire, dev, regs, lock, callers>>

get_bus_conversion_delay ==
    /\ pc = "ready"
    /\ result' = [op |-> "bus_conversion_delay",
                  val |-> bus_conversion_delay(config)]
    /\ trace' = <<>>
    /\ UNCHANGED <<args, config, calib, pc, wire, dev, regs, lock, callers>>

get_shunt_conversion_delay ==
    /\ pc = "ready"
    /\ result' = [op |-> "shunt_conversion_delay",
                  val |-> shunt_conversion_delay(config)]
    /\ trace' = <<>>
    /\ UNCHANGED <<args, config, calib, pc, wire, dev, regs, lock, callers>>

Next ==
    \/ init_scan
    \/ init_reset
    \/ init_config
    \/ init_calib
    \/ power_down
    \/ adc_off

Spec == Init /\ [][Next]_vars

-----------------------------------------------------------------------------
(* The look-ups of a constructed handle: the state __init__ leaves when    *)
(* every step of it succeeds, then any of the handle's operations.         *)

Constructed(a) ==
    /\ args = a
    /\ config = determine_configuration_register(And(a.mode, 7), a)
    /\ calib = calib_of(config, a)
    /\ pc = "ready"
    /\ wire = Written(register_calibration, calib)
    /\ result = [op |-> "init_calib"]
    /\ trace = scan_calls(TRUE, TRUE)
                 \o write_calls(TRUE, payload(register_config,
                                              config_bits["RST"]))
                 \o write_calls(TRUE, payload(register_config, config))
                 \o write_calls(TRUE, payload(register_calibration, calib))
    /\ regs = [NoRegs EXCEPT ![register_config] = config,
                             ![register_calibration] = calib]
    /\ BusIdle

InitQuery ==
    \E a \in ValidArgs :
        /\ a.shunt_resistor = DefaultArgs.shunt_resistor
        /\ Constructed(a)
        /\ dev = <<0, 0>>

NextQuery ==
    \/ get_modes
    \/ get_resolution
    \/ get_bus_conversion_delay
    \/ get_shunt_conversion_delay
    \/ power_down
    \/ adc_off

SpecQuery == InitQuery /\ [][NextQuery]_vars

(* The mode calls of a constructed handle, in any order, with modes()      *)
(* between them.                                                           *)
NextMode ==
    \/ power_down
    \/ adc_off
    \/ get_modes

SpecMode == InitQuery /\ [][NextMode]_vars

-----------------------------------------------------------------------------
(* The measurements of a constructed handle.  _readreg16 asserts           *)
(* try_lock(), then that the buffer of the transaction, dev, holds two     *)
(* bytes; _buf_to_int combines them.  raised names the assertion that      *)
(* ended the operation.                                                    *)

Byte == 0..255

Raised(op, what) == [op |-> op, ok |-> FALSE, raised |-> what]

shunt_voltage ==
    /\ pc = "ready"
    /\ \E free \in BOOLEAN :
         /\ trace' = readreg16_calls(free, register_shunt_voltage)
         /\ LET rd == read16(dev)
                r  == shunt_voltage_of(config, rd.val)
            IN  result' =
                  IF ~free THEN Raised("shunt_voltage", "try_lock")
                  ELSE IF ~rd.ok THEN Raised("shunt_voltage", "len")
                  ELSE IF ~r.ok THEN Raised("shunt_voltage", "bits")
                  ELSE [op |-> "shunt_voltage", ok |-> TRUE, raised |-> "none",
                        raw |-> rd.val, bits |-> resolution(config, "PG"),
                        val |-> r.val]
    /\ UNCHANGED <<args, config, calib, pc, wire, dev, regs, lock, callers>>

current ==
    /\ pc = "ready"
    /\ \E free \in BOOLEAN :
         /\ trace' = readreg16_calls(free, register_current)
         /\ LET rd == read16(dev)
                r  == current_of(rd.val)
            IN  result' =
                  IF ~free THEN Raised("current", "try_lock")
                  ELSE IF ~rd.ok THEN Raised("current", "len")
                  ELSE [op |-> "current", ok |-> TRUE, raised |-> "none",
                        raw |-> rd.val, bits |-> 15, val |-> r.val]
    /\ UNCHANGED <<args, config, calib, pc, wire, dev, regs, lock, callers>>

bus_voltage ==
    /\ pc = "ready"
    /\ \E free \in BOOLEAN :
         /\ trace' = readreg16_calls(free, register_bus_voltage)
         /\ LET rd == read16(dev)
                r  == bus_voltage_of(config, rd.val)
            IN  result' =
                  IF ~free THEN Raised("bus_voltage", "try_lock")
                  ELSE IF ~rd.ok THEN Raised("bus_voltage", "len")
                  ELSE IF ~r.ok THEN Raised("bus_voltage", "bits")
                  ELSE [op |-> "bus_voltage", ok |-> TRUE, raised |-> "none",
                        raw |-> rd.val, bits |-> resolution(config, "BRNG"),
                        val |-> r.val, overflow |-> r.overflow]
    /\ UNCHANGED <<args, config, calib, pc, wire, dev, regs, lock, callers>>

(* Signed decoding, over every shunt range; the register holds every high  *)
(* byte and the low bytes of LowBytes.                                     *)
LowBytes == {0, 1, 127, 128, 254, 255}

InitDecode ==
    /\ \E sv \in ShuntVoltages :
          Constructed([DefaultArgs EXCEPT !.shunt_voltage = sv])
    /\ dev \in Byte \X LowBytes

NextDecode ==
    \/ shunt_voltage
    \/ current

SpecDecode == InitDecode /\ [][NextDecode]_vars

(* Bus voltage decoding, over every bus range; the register holds every    *)
(* high byte and, in the low byte, every value of the bits the masks cut   *)
(* (bits 0..3) under both values of the bits above them.                   *)
BusLowBytes == (0..15) \cup (240..255)

InitBus ==
    /\ \E fs \in BusVoltages :
          Constructed([DefaultArgs EXCEPT !.full_scale = fs])
    /\ dev \in Byte \X BusLowBytes

NextBus == bus_voltage

SpecBus == InitBus /\ [][NextBus]_vars

(* The measurements when the transaction leaves a buffer of any length up  *)
(* to MaxBufLen in _rbuf.                                                  *)
MaxBufLen == 3
SampleBytes == {0, 1, 128, 255}

RECURSIVE BuffersOfLen(_)
BuffersOfLen(n) ==
    IF n = 0 THEN {<<>>}
    ELSE {Append(b, x) : b \in BuffersOfLen(n - 1), x \in SampleBytes}

Buffers == UNION {BuffersOfLen(n) : n \in 0..MaxBufLen}

InitBuf ==
    /\ Constructed(DefaultArgs)
    /\ dev \in Buffers

NextBuf ==
    \/ shunt_voltage
    \/ current
    \/ bus_voltage

SpecBuf == InitBuf /\ [][NextBuf]_vars

-----------------------------------------------------------------------------
(* The calibration step alone, from the state __init__ is in after the     *)
(* configuration write, over every shunt range and the shunt resistances   *)
(* 1..MaxShuntResistor milliohms, with and without averaging and in the    *)
(* modes 000 and 111.                                                      *)

Configured(a) ==
    /\ args = a
    /\ config = determine_configuration_register(And(a.mode, 7), a)
    /\ calib = 0
    /\ pc = "configured"
    /\ wire = Written(register_config, config)
    /\ result = [op |-> "init_config"]
    /\ trace = scan_calls(TRUE, TRUE)
                 \o write_calls(TRUE, payload(register_config,
                                              config_bits["RST"]))
                 \o write_calls(TRUE, payload(register_config, config))
    /\ regs = [NoRegs EXCEPT ![register_config] = config]
    /\ BusIdle

MaxShuntResistor == 24

InitCal ==
    /\ \E sv \in ShuntVoltages, r \in 1..MaxShuntResistor,
          b \in {0, 8}, s \in {0, 128}, m \in {0, 7} :
          Configured([DefaultArgs EXCEPT !.shunt_voltage = sv,
                                         !.shunt_resistor = r,
                                         !.bavg = b, !.savg = s, !.mode = m])
    /\ dev = <<0, 0>>

NextCal == init_calib

SpecCal == InitCal /\ [][NextCal]_vars

-----------------------------------------------------------------------------
(* Several callers on one bus.  Each runs the locked section the scan of   *)
(* __init__, _write and _readreg16 share: assert try_lock(), the           *)
(* transaction, unlock().  try_lock() takes the lock when no caller holds  *)
(* it and returns whether it did; the transaction is entered and left in   *)
(* two steps, so that the callers' steps interleave.                       *)

Operations == {"scan", "write", "readreg16"}

(* assert self._i2c.try_lock(): the operation goes on only with the lock.  *)
lock_not_asserted(granted) == TRUE
lock_asserted(granted) == granted

At(c, at, op, raised) ==
    [callers EXCEPT ![c] = [at |-> at, op |-> op, raised |-> raised]]

try_lock(c) ==
    /\ callers[c].at = "idle"
    /\ \E op \in Operations :
         LET granted == lock = NoHolder
         IN  /\ lock' = IF granted THEN c ELSE lock
             /\ callers' = IF lock_asserted(granted)
                           THEN At(c, "locked", op, FALSE)
                           ELSE At(c, "idle", op, TRUE)
    /\ UNCHANGED <<args, config, calib, pc, wire, dev, result, trace, regs>>

(* scan(), writeto() or writeto_then_readfrom() is called ...              *)
transaction_start(c) ==
    /\ callers[c].at = "locked"
    /\ callers' = At(c, "transaction", callers[c].op, FALSE)
    /\ UNCHANGED <<args, config, calib, pc, wire, dev, result, trace, regs,
                   lock>>

(* ... and returns.                                                        *)
transaction_end(c) ==
    /\ callers[c].at = "transaction"
    /\ callers' = At(c, "done", callers[c].op, FALSE)
    /\ UNCHANGED <<args, config, calib, pc, wire, dev, result, trace, regs,
                   lock>>

(* unlock() releases the lock, whoever holds it.                           *)
unlock(c) ==
    /\ callers[c].at = "done"
    /\ lock' = NoHolder
    /\ callers' = At(c, "idle", callers[c].op, FALSE)
    /\ UNCHANGED <<args, config, calib, pc, wire, dev, result, trace, regs>>

InitLock ==
    /\ Constructed(DefaultArgs)
    /\ dev = <<0, 0>>

NextLock ==
    \E c \in Callers :
        \/ try_lock(c)
        \/ transaction_start(c)
        \/ transaction_end(c)
        \/ unlock(c)

SpecLock == InitLock /\ [][NextLock]_vars

-----------------------------------------------------------------------------
(* Signed decoding.                                                        *)

(* The two's-complement value of the low bits + 1 bits of raw: the sign    *)
(* at position bits, every position below it magnitude.                    *)
SignedValue(raw, bits) ==
    LET m == raw % (2 ^ (bits + 1))
    IN  IF m >= 2 ^ bits THEN m - 2 ^ (bits + 1) ELSE m

(* C1: whatever shunt_voltage() (12 to 15 significant bits) or current()   *)
(* (15 significant bits) decodes from a 16-bit register value is the       *)
(* two's-complement value of its low bits + 1 bits; with 15 bits 0x0000    *)
(* gives 0, 0x7FFF gives 32767 and 0x8000 gives -32768.                    *)
C1_DecodeIsTwosComplement ==
    (result.op \in {"shunt_voltage", "current"} /\ result.ok)
        => /\ result.bits \in {12, 13, 14, 15}
           /\ result.val = SignedValue(result.raw, result.bits)
           /\ (result.bits = 15 /\ result.raw = 0) => result.val = 0
           /\ (result.bits = 15 /\ result.raw = 32767) => result.val = 32767
           /\ (result.bits = 15 /\ result.raw = 32768) => result.val = -32768

-----------------------------------------------------------------------------
(* Conversion delays.                                                      *)

(* The 4-bit ADC fields of a configuration word, as numbers 0..15.         *)
BADC(cfg) == (cfg \div 128) % 16
SADC(cfg) == (cfg \div 8) % 16

(* The table of the specification: the pattern b3 b2 b1 b0 of a field, as  *)
(* a number, to the index of its latency; and the latencies, in            *)
(* microseconds.                                                           *)
TablePatterns == {0, 1, 2, 3, 9, 10, 11, 12, 13, 14, 15}
TableIndex(p) == IF p <= 3 THEN p ELSE p - 5
TableLatencies ==
    <<80, 146, 284, 559, 1110, 2210, 4410, 8810, 17610, 35210, 70410>>
TableLatency(p) == TableLatencies[TableIndex(p) + 1]

(* C2: bus_conversion_delay() returns the latency the table gives for the  *)
(* BADC field of the cached word, and shunt_conversion_delay() the latency *)
(* the table gives for its SADC field, for each of the 11 table patterns.  *)
C2_DelayFromOwnField ==
    /\ (result.op = "bus_conversion_delay" /\ BADC(config) \in TablePatterns)
          => result.val = TableLatency(BADC(config))
    /\ (result.op = "shunt_conversion_delay" /\ SADC(config) \in TablePatterns)
          => result.val = TableLatency(SADC(config))

(* C3: both ADC fields of a synthesized word are table patterns (0100,     *)
(* 0101, 0110, 0111 and 1000 are never produced), so the two conversion    *)
(* delays of that word are table latencies, never the no-match default.    *)
C3_FieldsAreTablePatterns ==
    pc \in {"configured", "ready"}
        => /\ BADC(config) \in TablePatterns
           /\ SADC(config) \in TablePatterns
           /\ \E i \in 1..Len(TableLatencies) :
                  bus_conversion_delay(config) = TableLatencies[i]
           /\ \E i \in 1..Len(TableLatencies) :
                  shunt_conversion_delay(config) = TableLatencies[i]

-----------------------------------------------------------------------------
(* Configuration synthesis.                                                *)

(* The range fields of a configuration word, as numbers 0..3.              *)
BRNG(cfg) == (cfg \div 8192) % 4
PG(cfg)   == (cfg \div 2048) % 4

(* The range codes of the full-scale values.                               *)
BusCode(v)   == CASE v = 16 -> 0 [] v = 32 -> 1 [] v = 60 -> 2
ShuntCode(v) == CASE v = 40 -> 0 [] v = 80 -> 1 [] v = 160 -> 2 [] v = 320 -> 3

(* The word is the one _determine_configuration_register left: no          *)
(* power_down() or adc_off() has changed it since.                         *)
Synthesized ==
    \/ pc = "configured"
    \/ pc = "ready" /\ result.op = "init_calib"

(* C4: the synthesized word has RST clear, the mode in its low 3 bits,     *)
(* BRNG = 00/01/10 for 16/32/60 V, PG = 00/01/10/11 for 40/80/160/320 mV,  *)
(* and an ADC field equal to 00 followed by the axis's range code when the *)
(* axis's averaging is 0 (never 0011 in the bus field); synthesis run      *)
(* again on it gives the same word.                                        *)
C4_SynthesizedWord ==
    Synthesized
        => /\ config \in 0..32767
           /\ config % 8 = args.mode
           /\ BRNG(config) = BusCode(args.full_scale)
           /\ PG(config) = ShuntCode(args.shunt_voltage)
           /\ args.bavg = 0 => (BADC(config) = BRNG(config) /\ BADC(config) # 3)
           /\ args.savg = 0 => SADC(config) = PG(config)
           /\ determine_configuration_register(config, args) = config

C4_Witness ==
    /\ pc = "configured"
    /\ args.full_scale = 60 /\ args.shunt_voltage = 320
    /\ args.bavg = 0 /\ args.savg = 0 /\ args.mode = 5
    /\ config = 16384 + 6144 + 256 + 24 + 5

(* The averaging count a field with its enable bit set stands for.         *)
CountOf(field) == 2 ^ (field % 8)

(* C5: on each axis the averaging-enable bit of the synthesized word is    *)
(* set exactly when the axis's averaging count is not 0, and the low 3     *)
(* bits then encode the count (1 -> 000, 2 -> 001, ... 128 -> 111), so the *)
(* count is recovered from the field; the shunt field is the same for      *)
(* every bus averaging.                                                    *)
C5_AveragingRoundTrip ==
    Synthesized
        => /\ (BADC(config) >= 8) <=> (args.bavg # 0)
           /\ (SADC(config) >= 8) <=> (args.savg # 0)
           /\ args.bavg # 0 => CountOf(BADC(config)) = args.bavg
           /\ args.savg # 0 => CountOf(SADC(config)) = args.savg
           /\ \A b \in Averagings :
                  SADC(determine_configuration_register(
                           And(args.mode, 7), [args EXCEPT !.bavg = b]))
                      = SADC(config)

C5_Witness ==
    /\ pc = "configured"
    /\ args.bavg = 1 /\ args.savg = 32
    /\ BADC(config) = 8 /\ SADC(config) = 13


-----------------------------------------------------------------------------
(* Resolution.                                                             *)

(* _resolution on a word that holds nothing but a range code.              *)
ResolutionOfCodes ==
    /\ \A c \in 0..3 : resolution(c * 2048, "PG") = 12 + c
    /\ \A c \in 0..2 : resolution(c * 8192, "BRNG") = 12 + c
    /\ resolution(3 * 8192, "BRNG") = 14

(* C6: _resolution( "PG" ) decodes the PG codes 00, 01, 10, 11 to 12, 13,  *)
(* 14, 15 and _resolution( "BRNG" ) the BRNG codes to 12, 13, 14, 14; on   *)
(* every cached word of a constructed handle the shunt resolution is in    *)
(* 12..15 and the bus resolution in 12..14, so the assertions on _bits in  *)
(* shunt_voltage() and bus_voltage() hold.                                 *)
C6_Resolution ==
    /\ ResolutionOfCodes
    /\ pc = "ready"
          => /\ resolution(config, "PG") \in {12, 13, 14, 15}
             /\ resolution(config, "BRNG") \in {12, 13, 14}
             /\ shunt_bits_ok(config)
             /\ bus_bits_ok(config)
    /\ result.op = "resolution"
          => /\ result.w = "PG" => result.val = 12 + PG(config)
             /\ result.w = "BRNG"
                   => result.val = IF BRNG(config) = 3 THEN 14
                                   ELSE 12 + BRNG(config)

C6_Witness ==
    /\ pc = "ready"
    /\ config % 8 = 4 /\ args.mode = 7
    /\ result.op = "resolution" /\ result.w = "PG" /\ result.val = 14

-----------------------------------------------------------------------------
(* Bus voltage.                                                            *)

(* The count of the specification, by division: bits 3..14 at 12 bits,     *)
(* bits 3..15 at 13 bits, bits 2..15 at 14 bits.                           *)
BusCountOf(raw, bits) ==
    CASE bits = 12 -> (raw % 32768) \div 8
      [] bits = 13 -> raw \div 8
      [] bits = 14 -> raw \div 4

(* raw with bit 0, the overflow flag, inverted.                            *)
FlipOverflow(raw) == IF raw % 2 = 0 THEN raw + 1 ELSE raw - 1

(* C7: bus_voltage() returns 0.004 V times (raw & 0x7FF8) >> 3 at 12 bits, *)
(* (raw & 0xFFF8) >> 3 at 13 bits, (raw & 0xFFFC) >> 2 at 14 bits; the     *)
(* overflow flag, bit 0 of raw, neither changes the value nor makes the    *)
(* operation fail; raw 0x0008 at 12 bits gives 0.004 V.                    *)
C7_BusVoltage ==
    result.op = "bus_voltage"
        => /\ result.ok <=> (result.raised # "try_lock")
           /\ result.ok
                 => /\ result.bits = 12 + BusCode(args.full_scale)
                    /\ result.val = VbusLSB_mV * BusCountOf(result.raw, result.bits)
                    /\ result.val
                          = bus_voltage_of(config, FlipOverflow(result.raw)).val
                    /\ bus_voltage_of(config, FlipOverflow(result.raw)).ok
                    /\ result.overflow <=> (result.raw % 2 = 1)
                    /\ (result.bits = 12 /\ result.raw = 8) => result.val = 4

C7_Witness ==
    /\ result.op = "bus_voltage" /\ result.ok
    /\ result.bits = 12 /\ result.raw = 32768 + 8 + 1
    /\ result.overflow /\ result.val = 4

-----------------------------------------------------------------------------
(* Calibration.                                                            *)

(* floor( 0.04096 / ( current_lsb * ohms )) with bit 0 cleared, for        *)
(* current_lsb = ( volts / ohms ) / 2 ^ bits, from millivolts and          *)
(* milliohms: current_lsb * ohms = ( mV * mOhm ) / ( 1000 * mOhm * 2 ^     *)
(* bits ).                                                                 *)
CalibrationOf(mV, mOhm, bits) ==
    LET q == (4096 * (2 ^ bits) * mOhm) \div (100 * mV * mOhm)
    IN  q - (q % 2)

(* C8: the calibration value __init__ writes is floor( 0.04096 /           *)
(* ( current_lsb * ohms )) with bit 0 cleared, for current_full_scale =    *)
(* volts / ohms and current_lsb = current_full_scale / 2 ^ bits; it is     *)
(* even and fits in 16 bits; for 0.320 V, 0.005 ohm and 15 bits,           *)
(* current_full_scale is 64, current_lsb 64 / 32768 and the value 4194.    *)
C8_Calibration ==
    (pc = "ready" \/ wire.reg = register_calibration)
        => /\ calib = CalibrationOf(args.shunt_voltage, args.shunt_resistor,
                                    12 + ShuntCode(args.shunt_voltage))
           /\ calib % 2 = 0
           /\ calib \in 0..65535
           /\ wire.reg = register_calibration => wire.val = calib
           /\ (args.shunt_voltage = 320 /\ args.shunt_resistor = 5)
                 => /\ CurrentFS(args) = <<64, 1>>
                    /\ CurrentLSB(config, args) = <<1, 512>>
                    /\ calib = 4194

C8_Witness ==
    /\ pc = "ready" /\ result.op = "init_calib"
    /\ args.shunt_voltage = 320 /\ args.shunt_resistor = 5
    /\ wire.reg = register_calibration /\ wire.val = 4194

-----------------------------------------------------------------------------
(* Framing.                                                                *)

(* C9: every register write sends the 3 bytes register address, high byte  *)
(* and low byte of the 16-bit value written, and ( byte0 << 8 ) | byte1    *)
(* of the last two gives the value back; the value is the RST word for the *)
(* reset, the cached word for the configuration, power_down() and          *)
(* adc_off(), and the calibration value for the calibration.               *)
C9_Framing ==
    /\ wire # NoWrite
          => /\ wire.val \in 0..65535
             /\ wire.buf = <<wire.reg, wire.val \div 256, wire.val % 256>>
             /\ buf_to_int(SubSeq(wire.buf, 2, 3)) = [ok |-> TRUE, val |-> wire.val]
    /\ pc = "reset"
          => wire.reg = register_config /\ wire.val = 32768
    /\ pc = "configured"
          => wire.reg = register_config /\ wire.val = config
    /\ (pc = "ready" /\ result.op = "init_calib")
          => wire.reg = register_calibration /\ wire.val = calib
    /\ (result.op \in {"power_down", "adc_off"} /\ result.ok)
          => wire.reg = register_config /\ wire.val = config

C9_Witness ==
    /\ pc = "ready" /\ result.op = "adc_off" /\ result.ok
    /\ args.full_scale = 60 /\ args.bavg = 128 /\ args.savg = 128
    /\ wire.buf = <<0, 95, 252>>

-----------------------------------------------------------------------------
(* Malformed buffers.                                                      *)

-----------------------------------------------------------------------------
(* Rejected constructions.                                                 *)

(* The legal arguments, as the specification lists them.                   *)
Legal(a) ==
    /\ a.full_scale \in {16, 32, 60}
    /\ a.shunt_voltage \in {40, 80, 160, 320}
    /\ a.bavg \in {0, 1, 2, 4, 8, 16, 32, 64, 128}
    /\ a.savg \in {0, 1, 2, 4, 8, 16, 32, 64, 128}
    /\ a.mode \in 0..7

-----------------------------------------------------------------------------
(* The writes of a construction.                                           *)

IsWrite(c) == c.call = "writeto"
IsScan(c) == c.call = "scan"

(* The payloads of the register writes of the operation, in order.         *)
WritesOf(t) == [i \in DOMAIN SelectSeq(t, IsWrite) |->
                    SelectSeq(t, IsWrite)[i].arg]

(* The scan of the operation found the address.                            *)
AddressFound(t) ==
    \E i \in DOMAIN t : IsScan(t[i]) /\ t[i].ret

(* No try_lock() of the operation found the bus held by another user.      *)
BusAvailable(t) ==
    \A i \in DOMAIN t : t[i].call = "try_lock" => t[i].ret

(* C12: a construction with legal arguments whose address the scan finds   *)
(* (and that is not kept off the bus by another user) ends with exactly    *)
(* three register writes: 0x8000 to the configuration register, the        *)
(* configuration word to the configuration register, the calibration value *)
(* to the calibration register; it never ends after the configuration      *)
(* write alone, whatever shunt resistance the checks accept.               *)
C12_ThreeWrites ==
    ( /\ Legal(args)
      /\ result.op \in {"init_scan", "init_reset", "init_config", "init_calib"}
      /\ pc \in {"failed", "ready"}
      /\ AddressFound(trace)
      /\ BusAvailable(trace) )
        => /\ pc = "ready"
           /\ WritesOf(trace) =
                << <<0, 128, 0>>,
                   <<0, config \div 256, config % 256>>,
                   <<5, calib \div 256, calib % 256>> >>

-----------------------------------------------------------------------------
(* The cached configuration word and the device.                           *)

(* C13: between the operations of a constructed handle the cached          *)
(* configuration word is the value the handle last wrote to the            *)
(* configuration register, after any power_down() and adc_off() calls,     *)
(* those that end on a held bus lock included: such a call leaves the      *)
(* cached word as it was.                                                  *)
C13_CacheMatchesDevice ==
    pc = "ready" => config = regs[register_config]

-----------------------------------------------------------------------------
(* The bus lock.                                                           *)

InTransaction == {c \in Callers : callers[c].at = "transaction"}

-----------------------------------------------------------------------------
(* The mode bits.                                                          *)

(* The word construction left in the cache.                                *)
AtConstruction == determine_configuration_register(And(args.mode, 7), args)

(* On a constructed handle the bits above the mode are those of            *)
(* construction, and so are the resolutions and the conversion delays;     *)
(* power_down() leaves mode 000 and adc_off() mode 100.                    *)
ModeBitsOnly ==
    pc = "ready"
        => LET built == AtConstruction
           IN  /\ config \div 8 = built \div 8
               /\ \A w \in {"PG", "BRNG"} :
                      resolution(config, w) = resolution(built, w)
               /\ bus_conversion_delay(config) = bus_conversion_delay(built)
               /\ shunt_conversion_delay(config)
                      = shunt_conversion_delay(built)
               /\ result.op = "power_down" => config % 8 = 0
               /\ result.op = "adc_off" => config % 8 = 4

(* A call repeated changes nothing, and modes() right after a call returns *)
(* the mode the call set.                                                  *)
ModeCalls ==
    /\ (result.op = "power_down" /\ result'.op = "power_down")
          => config' = config
    /\ (result.op = "adc_off" /\ result'.op = "adc_off")
          => config' = config
    /\ (result.op = "power_down" /\ result'.op = "modes") => result'.val = 0
    /\ (result.op = "adc_off" /\ result'.op = "modes") => result'.val = 4

(* C15: power_down() and adc_off() change only the three mode bits of the  *)
(* cached word: modes() returns 0b000 after power_down() and 0b100 after   *)
(* adc_off(), each call is idempotent, and in any sequence of the calls    *)
(* the RST, BRNG, PG, BADC and SADC bits, both resolutions and both        *)
(* conversion delays are those of construction.                            *)
C15_ModeBitsOnly == []ModeBitsOnly /\ [][ModeCalls]_vars

C15_Witness ==
    /\ pc = "ready"
    /\ args.mode = 7 /\ args.savg = 2
    /\ config % 8 = 4
    /\ config \div 8 = AtConstruction \div 8
    /\ result.op = "modes" /\ result.val = 4

-----------------------------------------------------------------------------
(* The calibration value.                                                  *)

====
